---- MODULE Spec2Model ----
(***************************************************************************)
(* Model of src/main/python/smart/smartdata_run.py: a script that binds    *)
(* scenario tuples, groups them by year, concatenates the groups, builds   *)
(* the configuration dictionary and calls smartdata_setup.make_plots once. *)
(***************************************************************************)
EXTENDS Integers, Sequences, FiniteSets, TLC

\* ------------------------------------------------------------------ bounds
MaxCatalogLen == 3

\* ------------------------------------------------- scenario tuples (5-41)
baseline_2010 == <<1, 2010, 15, "base", "Base", "baseline", "https://beam-outputs.s3.amazonaws.com/output/sfbay/sfbay-smart-base-2010__2019-09-20_21-12-45">>
a_lt_2010 == <<6, 2010, 15, "a", "Low Tech", "a_lt", "https://beam-outputs.s3.amazonaws.com/output/sfbay/sfbay-smart-a-lt-2010__2019-09-20_21-12-45">>
a_ht_2010 == <<7, 2010, 15, "a", "High Tech", "a_ht", "https://beam-outputs.s3.amazonaws.com/output/sfbay/sfbay-smart-a-ht-2010__2019-09-20_21-12-45">>
b_lt_2010 == <<8, 2010, 15, "b", "Low Tech", "b_lt", "https://beam-outputs.s3.amazonaws.com/output/sfbay/sfbay-smart-b-lt-2010__2019-09-20_21-12-45">>
b_ht_2010 == <<9, 2010, 15, "b", "High Tech", "b_ht", "https://beam-outputs.s3.amazonaws.com/output/sfbay/sfbay-smart-b-ht-2010__2019-09-20_21-12-46">>
c_lt_2010 == <<10, 2010, 15, "c", "Low Tech", "c_lt", "https://beam-outputs.s3.amazonaws.com/output/sfbay/sfbay-smart-c-lt-2010__2019-09-20_21-12-45">>
c_ht_2010 == <<11, 2010, 15, "c", "High Tech", "c_ht", "https://beam-outputs.s3.amazonaws.com/output/sfbay/sfbay-smart-c-ht-2010__2019-09-20_21-12-45">>

baseline_2025 == <<1, 2025, 15, "base", "Base", "baseline", "https://beam-outputs.s3.amazonaws.com/output/sfbay/sfbay-smart-base-2025__2019-09-20_21-12-45">>
base_2030lt_2025 == <<2, 2025, 15, "base", "2030 Low Tech", "base_fleet_2030_lt", "https://beam-outputs.s3.amazonaws.com/output/sfbay/sfbay-smart-base-2030-lt-2025__2019-09-20_21-13-01">>
base_2030ht_2025 == <<3, 2025, 15, "base", "2030 High Tech", "base_fleet_2030_ht", "https://beam-outputs.s3.amazonaws.com/output/sfbay/sfbay-smart-base-2030-ht-2025__2019-09-20_21-13-12">>
a_lt_2025_id1 == <<1, 2025, 15, "a", "Low Tech", "a_lt", "https://beam-outputs.s3.amazonaws.com/output/sfbay/sfbay-smart-a-lt-2025__2019-09-20_21-12-45">>
a_lt_2025 == <<6, 2025, 15, "a", "Low Tech", "a_lt", "https://beam-outputs.s3.amazonaws.com/output/sfbay/sfbay-smart-a-lt-2025__2019-09-20_21-12-45">>
a_ht_2025 == <<7, 2025, 15, "a", "High Tech", "a_ht", "https://beam-outputs.s3.amazonaws.com/output/sfbay/sfbay-smart-a-ht-2025__2019-09-20_21-12-45">>

baseline_2040 == <<1, 2040, 15, "base", "Base", "baseline", "https://beam-outputs.s3.amazonaws.com/output/sfbay/sfbay-smart-base-2040__2019-09-20_21-12-45">>
base_2045lt_2040_id2 == <<2, 2040, 15, "base", "2045 Low Tech", "base_fleet_2045_lt", "https://beam-outputs.s3.amazonaws.com/output/sfbay/sfbay-smart-base-2045-lt-2040__2019-09-22_19-47-05">>
base_2045lt_2040 == <<4, 2040, 15, "base", "2045 Low Tech", "base_fleet_2045_lt", "https://beam-outputs.s3.amazonaws.com/output/sfbay/sfbay-smart-base-2045-lt-2040__2019-09-22_19-47-05">>
base_2045ht_2040 == <<5, 2040, 15, "base", "2045 High Tech", "base_fleet_2045_ht", "https://beam-outputs.s3.amazonaws.com/output/sfbay/sfbay-smart-base-2045-ht-2040__2019-09-22_19-47-05">>
b_lt_2040 == <<8, 2040, 15, "b", "Low Tech", "b_lt", "https://beam-outputs.s3.amazonaws.com/output/sfbay/sfbay-smart-b-lt-2040__2019-09-20_21-12-45">>
b_ht_2040 == <<9, 2040, 15, "b", "High Tech", "b_ht", "https://beam-outputs.s3.amazonaws.com/output/sfbay/sfbay-smart-b-ht-2040__2019-09-20_21-12-45">>
c_lt_2040 == <<10, 2040, 15, "c", "Low Tech", "c_lt", "https://beam-outputs.s3.amazonaws.com/output/sfbay/sfbay-smart-c-lt-2040__2019-09-20_21-12-45">>
c_ht_2040 == <<11, 2040, 15, "c", "High Tech", "c_ht", "https://beam-outputs.s3.amazonaws.com/output/sfbay/sfbay-smart-c-ht-2040__2019-09-20_21-12-45">>

\* The three list displays of lines 44-47, as written in the module.
list_2010 == <<baseline_2010, a_lt_2010, a_ht_2010, b_lt_2010, b_ht_2010, c_lt_2010, c_ht_2010>>
list_2025_mixed == <<baseline_2025, base_2030lt_2025, base_2030ht_2025, a_lt_2010, a_ht_2025>>
list_2025 == <<baseline_2025, base_2030lt_2025, base_2030ht_2025, a_lt_2025, a_ht_2025>>
list_2040 == <<baseline_2040, base_2045lt_2040, base_2045ht_2040, b_lt_2040, b_ht_2040, c_lt_2040, c_ht_2040>>
ModuleGroups == <<list_2010, list_2025, list_2040>>

\* Sample scenario tuples for runs of the same script over other list
\* displays; SampleC carries a source_uri that is not a URI.
SampleA == <<1, 2010, 15, "base", "Base", "baseline", "https://host/a">>
SampleB == <<2, 2025, 15, "a", "Low Tech", "a_lt", "https://host/b">>
SampleC == <<3, 2040, 15, "b", "High Tech", "b_ht", "not a uri">>
SampleRecords == {SampleA, SampleB, SampleC}
SampleCatalogs == UNION {[1..k -> SampleRecords] : k \in 0..MaxCatalogLen}

\* Field positions of a scenario tuple.
F_id == 1
F_year == 2
F_span == 3
F_group == 4
F_tech == 5
F_slug == 6
F_uri == 7

\* ---------------------------------------------------------------- state
VARIABLES
    pc,                 \* statement about to execute
    groups,             \* the three list displays the script text holds
    bound,              \* names bound in the module namespace
    scenarios_2010, scenarios_2025, scenarios_2040,
    scenarios,
    setup_config_dict,
    calls,              \* arguments make_plots has been invoked with
    idx,                \* scenarios make_plots has resolved so far
    exc,                \* exception in flight (a sequence of 0 or 1)
    out,                \* standard output
    status,             \* process exit status, -1 while running
    uncaught            \* exception reported at the process boundary

vars == <<pc, groups, bound, scenarios_2010, scenarios_2025, scenarios_2040,
          scenarios, setup_config_dict, calls, idx, exc, out, status, uncaught>>

\* ------------------------------------------------------ pure operations
\* "+" that skips items of b already present in a.
ListAdd_dedup(a, b) ==
    LET keep == SelectSeq(b, LAMBDA x : \A j \in 1..Len(a) : a[j] # x)
    IN  [i \in 1..(Len(a) + Len(keep)) |-> IF i <= Len(a) THEN a[i] ELSE keep[i - Len(a)]]

\* Python list "+": a new list holding a's items then b's items.
ListAdd(a, b) ==
    [i \in 1..(Len(a) + Len(b)) |-> IF i <= Len(a) THEN a[i] ELSE b[i - Len(a)]]

\* The chain of "+" written with its operands in the opposite order.
RECURSIVE build_catalog_rev(_)
build_catalog_rev(gs) ==
    IF Len(gs) = 0 THEN <<>>
    ELSE IF Len(gs) = 1 THEN gs[1]
    ELSE ListAdd(gs[Len(gs)], build_catalog_rev(SubSeq(gs, 1, Len(gs) - 1)))

\* Left-associative chain of "+", as in line 49.
RECURSIVE build_catalog(_)
build_catalog(gs) ==
    IF Len(gs) = 0 THEN <<>>
    ELSE IF Len(gs) = 1 THEN gs[1]
    ELSE ListAdd(build_catalog(SubSeq(gs, 1, Len(gs) - 1)), gs[Len(gs)])

\* A dict display that keeps only scenarios whose source_uri looks like a URI.
build_run_config_validating(run_name, home_dir, catalog) ==
    [run_name |-> run_name, home_dir |-> home_dir,
     scenarios |-> SelectSeq(catalog, LAMBDA r : r[F_uri] # "not a uri")]

\* Dict display of lines 51-55.
build_run_config(run_name, home_dir, catalog) ==
    [run_name |-> run_name, home_dir |-> home_dir, scenarios |-> catalog]

RunName == "20thSep2019"
HomeDir == "/home/ubuntu/git/jupyter/data"
NoConfig == build_run_config("", "", <<>>)

\* ---------------------------------------------------------------- Init
InitRest ==
    /\ pc = "line44"
    /\ bound = {}
    /\ scenarios_2010 = <<>>
    /\ scenarios_2025 = <<>>
    /\ scenarios_2040 = <<>>
    /\ scenarios = <<>>
    /\ setup_config_dict = NoConfig
    /\ calls = <<>>
    /\ idx = 0
    /\ exc = <<>>
    /\ out = <<>>
    /\ status = -1
    /\ uncaught = <<>>

Init ==
    /\ groups = ModuleGroups
    /\ InitRest

\* Every way of writing at most MaxCatalogLen sample tuples into three lists.
InitInputs ==
    /\ \E s \in SampleCatalogs : \E a \in 0..Len(s) : \E b \in a..Len(s) :
          groups = <<SubSeq(s, 1, a), SubSeq(s, a + 1, b), SubSeq(s, b + 1, Len(s))>>
    /\ InitRest

\* -------------------------------------------------------------- actions
AssignScenarios2010 ==
    /\ pc = "line44"
    /\ scenarios_2010' = groups[1]
    /\ bound' = bound \cup {"scenarios_2010"}
    /\ pc' = "line45"
    /\ UNCHANGED <<groups, scenarios_2025, scenarios_2040, scenarios,
                   setup_config_dict, calls, idx, exc, out, status, uncaught>>

AssignScenarios2025 ==
    /\ pc = "line45"
    /\ scenarios_2025' = groups[2]
    /\ bound' = bound \cup {"scenarios_2025"}
    /\ pc' = "line47"
    /\ UNCHANGED <<groups, scenarios_2010, scenarios_2040, scenarios,
                   setup_config_dict, calls, idx, exc, out, status, uncaught>>

AssignScenarios2040 ==
    /\ pc = "line47"
    /\ scenarios_2040' = groups[3]
    /\ bound' = bound \cup {"scenarios_2040"}
    /\ pc' = "line49"
    /\ UNCHANGED <<groups, scenarios_2010, scenarios_2025, scenarios,
                   setup_config_dict, calls, idx, exc, out, status, uncaught>>

AssignScenarios ==
    /\ pc = "line49"
    /\ scenarios' = build_catalog(<<scenarios_2010, scenarios_2025, scenarios_2040>>)
    /\ bound' = bound \cup {"scenarios"}
    /\ pc' = "line51"
    /\ UNCHANGED <<groups, scenarios_2010, scenarios_2025, scenarios_2040,
                   setup_config_dict, calls, idx, exc, out, status, uncaught>>

AssignSetupConfigDict ==
    /\ pc = "line51"
    /\ setup_config_dict' = build_run_config(RunName, HomeDir, scenarios)
    /\ bound' = bound \cup {"setup_config_dict"}
    /\ pc' = "line58"
    /\ UNCHANGED <<groups, scenarios_2010, scenarios_2025, scenarios_2040,
                   scenarios, calls, idx, exc, out, status, uncaught>>

\* The call statement executed twice.
CallMakePlots_twice ==
    /\ pc = "line58"
    /\ calls' = Append(Append(calls, setup_config_dict), setup_config_dict)
    /\ idx' = 0
    /\ pc' = "in_call"
    /\ UNCHANGED <<groups, bound, scenarios_2010, scenarios_2025, scenarios_2040,
                   scenarios, setup_config_dict, exc, out, status, uncaught>>

CallMakePlots ==
    /\ pc = "line58"
    /\ calls' = Append(calls, setup_config_dict)
    /\ idx' = 0
    /\ pc' = "in_call"
    /\ UNCHANGED <<groups, bound, scenarios_2010, scenarios_2025, scenarios_2040,
                   scenarios, setup_config_dict, exc, out, status, uncaught>>

\* The collaborator: resolves each source_uri in turn, may fail at any of them.
MakePlotsResolve ==
    /\ pc = "in_call"
    /\ idx < Len(calls[Len(calls)].scenarios)
    /\ idx' = idx + 1
    /\ UNCHANGED <<pc, groups, bound, scenarios_2010, scenarios_2025, scenarios_2040,
                   scenarios, setup_config_dict, calls, exc, out, status, uncaught>>

RaisableAt(i, n) ==
    (IF i = 0 THEN {[kind |-> "missing directory", at |-> 0]} ELSE {})
    \cup (IF i < n THEN {[kind |-> k, at |-> i + 1] : k \in {"network failure", "malformed URI"}}
                   ELSE {[kind |-> "filesystem error", at |-> n]})

MakePlotsRaise ==
    /\ pc = "in_call"
    /\ \E e \in RaisableAt(idx, Len(calls[Len(calls)].scenarios)) :
          exc' = <<e>>
    /\ pc' = "raised"
    /\ UNCHANGED <<groups, bound, scenarios_2010, scenarios_2025, scenarios_2040,
                   scenarios, setup_config_dict, calls, idx, out, status, uncaught>>

MakePlotsReturn ==
    /\ pc = "in_call"
    /\ idx = Len(calls[Len(calls)].scenarios)
    /\ pc' = "line60"
    /\ UNCHANGED <<groups, bound, scenarios_2010, scenarios_2025, scenarios_2040,
                   scenarios, setup_config_dict, calls, idx, exc, out, status, uncaught>>

\* A bare except around line 58 that swallows the error and carries on.
UnhandledException_swallow ==
    /\ pc = "raised"
    /\ pc' = "line60"
    /\ UNCHANGED <<groups, bound, scenarios_2010, scenarios_2025, scenarios_2040,
                   scenarios, setup_config_dict, calls, idx, exc, out, status, uncaught>>

\* A retry loop around line 58.
UnhandledException_retry ==
    /\ pc = "raised"
    /\ exc' = <<>>
    /\ pc' = "line58"
    /\ UNCHANGED <<groups, bound, scenarios_2010, scenarios_2025, scenarios_2040,
                   scenarios, setup_config_dict, calls, idx, out, status, uncaught>>

\* No try/except around line 58: the exception ends the script.
UnhandledException ==
    /\ pc = "raised"
    /\ uncaught' = exc
    /\ status' = 1
    /\ pc' = "done"
    /\ UNCHANGED <<groups, bound, scenarios_2010, scenarios_2025, scenarios_2040,
                   scenarios, setup_config_dict, calls, idx, exc, out>>

PrintEnd ==
    /\ pc = "line60"
    /\ out' = Append(out, "END")
    /\ pc' = "eof"
    /\ UNCHANGED <<groups, bound, scenarios_2010, scenarios_2025, scenarios_2040,
                   scenarios, setup_config_dict, calls, idx, exc, status, uncaught>>

EndOfScript ==
    /\ pc = "eof"
    /\ status' = 0
    /\ pc' = "done"
    /\ UNCHANGED <<groups, bound, scenarios_2010, scenarios_2025, scenarios_2040,
                   scenarios, setup_config_dict, calls, idx, exc, out, uncaught>>

Next ==
    \/ AssignScenarios2010
    \/ AssignScenarios2025
    \/ AssignScenarios2040
    \/ AssignScenarios
    \/ AssignSetupConfigDict
    \/ CallMakePlots
    \/ MakePlotsResolve
    \/ MakePlotsRaise
    \/ MakePlotsReturn
    \/ UnhandledException
    \/ PrintEnd
    \/ EndOfScript

\* The module as written.
Spec == Init /\ [][Next]_vars

\* The same script over bounded list displays.
SpecInputs == InitInputs /\ [][Next]_vars

\* The interpreter keeps executing the script's own statements; the blocking
\* call itself is not assumed to come back.
Fairness ==
    /\ WF_vars(UnhandledException)
    /\ WF_vars(PrintEnd)
    /\ WF_vars(EndOfScript)

FairSpec == Init /\ [][Next]_vars /\ Fairness

\* ============================================================ properties
Offset(i) == IF i = 1 THEN 0
             ELSE IF i = 2 THEN Len(groups[1])
             ELSE Len(groups[1]) + Len(groups[2])

RemoveAt(s, k) == [j \in 1..(Len(s) - 1) |-> IF j < k THEN s[j] ELSE s[j + 1]]

SplitAt(gs, i, k) ==
    SubSeq(gs, 1, i - 1) \o <<SubSeq(gs[i], 1, k), SubSeq(gs[i], k + 1, Len(gs[i]))>>
                         \o SubSeq(gs, i + 1, Len(gs))

Flat == groups[1] \o groups[2] \o groups[3]

BeforeCall == {"line44", "line45", "line47", "line49", "line51", "line58"}
AfterCall == {"in_call", "raised", "line60", "eof", "done"}

\* C1: the catalog holds every record of group i, in its order within the
\* group, before every record of group i+1; nothing is dropped, duplicated,
\* deduplicated or re-sorted.
OrderPreserved ==
    "scenarios" \in bound =>
        /\ Len(scenarios) = Len(groups[1]) + Len(groups[2]) + Len(groups[3])
        /\ \A i \in 1..3 : \A k \in 1..Len(groups[i]) :
              scenarios[Offset(i) + k] = groups[i][k]

OrderPreservedWitness ==
    /\ "scenarios" \in bound
    /\ groups = <<(<<SampleA>>), <<SampleB, SampleC>>, <<>> >>
    /\ scenarios = <<SampleA, SampleB, SampleC>>

\* C2: make_plots is invoked exactly once, never before the configuration
\* dictionary is assembled, and with run_name, home_dir and the complete
\* catalog; an empty catalog is forwarded the same way.
ExactlyOneCall ==
    /\ pc \in BeforeCall => calls = <<>>
    /\ pc \in AfterCall =>
          /\ Len(calls) = 1
          /\ {"scenarios", "setup_config_dict"} \subseteq bound
          /\ calls[1] = [run_name |-> RunName, home_dir |-> HomeDir, scenarios |-> Flat]

ExactlyOneCallWitness ==
    /\ pc = "done"
    /\ Len(calls) = 1
    /\ calls[1].scenarios = <<>>

\* C3: "END" is printed exactly when make_plots returned normally, once and
\* after the call; an error raised by make_plots reaches the process boundary
\* unchanged, ends the run, and leaves "END" unprinted.
EndOnlyOnNormalReturn ==
    /\ out \in {<<>>, <<"END">>}
    /\ out = <<"END">> =>
          /\ pc \in {"eof", "done"}
          /\ exc = <<>>
          /\ Len(calls) = 1
          /\ idx = Len(calls[1].scenarios)
    /\ pc = "raised" => out = <<>> /\ Len(exc) = 1
    /\ pc = "done" =>
          /\ (out = <<"END">>) <=> (exc = <<>>)
          /\ exc # <<>> => uncaught = exc /\ status = 1 /\ Len(calls) = 1
          /\ exc = <<>> => uncaught = <<>> /\ status = 0

EndOnlyOnNormalReturnWitness ==
    /\ pc = "done"
    /\ out = <<>>
    /\ uncaught = <<[kind |-> "network failure", at |-> 2]>>

\* C4 (as stated): no two distinct records of the list passed to make_plots
\* have the same id.
IdUniqueInCatalog ==
    pc \in AfterCall =>
        \A i, j \in 1..Len(calls[1].scenarios) :
            i # j => calls[1].scenarios[i][F_id] # calls[1].scenarios[j][F_id]

\* C4 (amended): no two distinct records of the list passed to make_plots
\* have both the same id and the same year.
IdUniqueWithinYear ==
    pc \in AfterCall =>
        \A i, j \in 1..Len(calls[1].scenarios) :
            (i # j /\ calls[1].scenarios[i][F_id] = calls[1].scenarios[j][F_id])
                => calls[1].scenarios[i][F_year] # calls[1].scenarios[j][F_year]

IdUniqueWithinYearWitness ==
    /\ pc \in AfterCall
    /\ \E i, j \in 1..Len(calls[1].scenarios) :
          /\ i # j
          /\ calls[1].scenarios[i][F_id] = calls[1].scenarios[j][F_id]

\* C5: each year group holds records of its own year only, and the year is
\* non-decreasing along the catalog (2010s, then 2025s, then 2040s).
YearGrouped ==
    /\ "scenarios_2010" \in bound =>
          \A k \in 1..Len(scenarios_2010) : scenarios_2010[k][F_year] = 2010
    /\ "scenarios_2025" \in bound =>
          \A k \in 1..Len(scenarios_2025) : scenarios_2025[k][F_year] = 2025
    /\ "scenarios_2040" \in bound =>
          \A k \in 1..Len(scenarios_2040) : scenarios_2040[k][F_year] = 2040
    /\ "scenarios" \in bound =>
          /\ scenarios = scenarios_2010 \o scenarios_2025 \o scenarios_2040
          /\ \A i, j \in 1..Len(scenarios) :
                i < j => scenarios[i][F_year] <= scenarios[j][F_year]

YearGroupedWitness ==
    /\ "scenarios" \in bound
    /\ scenarios[1][F_year] = 2010
    /\ scenarios[8][F_year] = 2025
    /\ scenarios[Len(scenarios)][F_year] = 2040

\* C6: every record reaches make_plots field for field as it was placed in
\* its group, a malformed source_uri included; the dictionary's scenarios is
\* the catalog and the dictionary passed is the one that was built.
PassedThroughUnchanged ==
    /\ "setup_config_dict" \in bound =>
          /\ setup_config_dict.scenarios = scenarios
          /\ setup_config_dict.run_name = RunName
          /\ setup_config_dict.home_dir = HomeDir
    /\ pc \in AfterCall =>
          /\ calls[1] = setup_config_dict
          /\ Len(calls[1].scenarios) = Len(Flat)
          /\ \A i \in 1..3 : \A k \in 1..Len(groups[i]) :
                /\ Len(calls[1].scenarios[Offset(i) + k]) = 7
                /\ \A f \in 1..7 :
                      calls[1].scenarios[Offset(i) + k][f] = groups[i][k][f]

PassedThroughUnchangedWitness ==
    /\ pc \in AfterCall
    /\ \E n \in 1..Len(calls[1].scenarios) :
          calls[1].scenarios[n][F_uri] = "not a uri"

\* C7: building without one record gives the catalog with that record
\* deleted; the other records keep fields and order, and a group left empty
\* contributes nothing.
DisablingLeavesRest ==
    "scenarios" \in bound =>
        \A i \in 1..3 : \A k \in 1..Len(groups[i]) :
            build_catalog([groups EXCEPT ![i] = RemoveAt(groups[i], k)])
                = RemoveAt(scenarios, Offset(i) + k)

DisablingLeavesRestWitness ==
    /\ "scenarios" \in bound
    /\ Len(groups[1]) = 2
    /\ Len(groups[2]) = 1
    /\ groups[1][1] = groups[2][1]
    /\ Len(scenarios) >= 3

\* C8: splitting any group into two adjacent sub-groups, at any position
\* (empty halves included), yields the same catalog as the script built.
RegroupingInvariant ==
    "scenarios" \in bound =>
        /\ scenarios = build_catalog(groups)
        /\ \A i \in 1..3 : \A k \in 0..Len(groups[i]) :
              build_catalog(SplitAt(groups, i, k)) = scenarios

RegroupingInvariantWitness ==
    /\ "scenarios" \in bound
    /\ Len(groups[2]) = 2
    /\ groups[2][1] = groups[2][2]
    /\ Len(groups[1]) = 1

\* C9: the statements run once each in the fixed order groups, catalog,
\* configuration, call, end; and once the call has returned or failed the
\* run terminates, with "END" printed on return and with the error on failure.
Chain ==
    { <<"line44", "line45">>, <<"line45", "line47">>, <<"line47", "line49">>,
      <<"line49", "line51">>, <<"line51", "line58">>, <<"line58", "in_call">>,
      <<"in_call", "line60">>, <<"in_call", "raised">>, <<"line60", "eof">>,
      <<"eof", "done">>, <<"raised", "done">> }

SequentialRun ==
    /\ [][ /\ pc' # pc => <<pc, pc'>> \in Chain
           /\ pc' = pc => (pc = "in_call" /\ idx' = idx + 1)
           /\ Len(calls') <= 1 ]_vars
    /\ (pc = "line60") ~> (pc = "done" /\ out = <<"END">> /\ status = 0)
    /\ (pc = "raised") ~> (pc = "done" /\ uncaught = exc /\ status = 1)

SequentialRunWitness ==
    /\ pc = "done"
    /\ status = 1
    /\ idx = 19
    /\ Len(calls) = 1

\* C10: the module's catalog has 19 records (7, 5, 7 by year); (id, year) is
\* unique; equal ids share group, tech_label and slug; every record has seven
\* fields, horizon_span 15 and a group among base, a, b, c.
ModuleCatalogShape ==
    "scenarios" \in bound =>
        /\ Len(scenarios) = 19
        /\ Cardinality({n \in 1..Len(scenarios) : scenarios[n][F_year] = 2010}) = 7
        /\ Cardinality({n \in 1..Len(scenarios) : scenarios[n][F_year] = 2025}) = 5
        /\ Cardinality({n \in 1..Len(scenarios) : scenarios[n][F_year] = 2040}) = 7
        /\ \A m, n \in 1..Len(scenarios) :
              /\ (m # n) => <<scenarios[m][F_id], scenarios[m][F_year]>>
                              # <<scenarios[n][F_id], scenarios[n][F_year]>>
              /\ scenarios[m][F_id] = scenarios[n][F_id] =>
                    /\ scenarios[m][F_group] = scenarios[n][F_group]
                    /\ scenarios[m][F_tech] = scenarios[n][F_tech]
                    /\ scenarios[m][F_slug] = scenarios[n][F_slug]
        /\ \A n \in 1..Len(scenarios) :
              /\ Len(scenarios[n]) = 7
              /\ scenarios[n][F_span] = 15
              /\ scenarios[n][F_group] \in {"base", "a", "b", "c"}

ModuleCatalogShapeWitness ==
    /\ "scenarios" \in bound
    /\ Len(scenarios) = 19
    /\ scenarios[1][F_id] = scenarios[8][F_id]
    /\ scenarios[8][F_id] = scenarios[13][F_id]

====
